---- MODULE Spec2Model ----
(***************************************************************************)
(* Model of the sink-receiver Kafka client (src/client/client.go):         *)
(* the chunk reassembly of processMessage/bufferCleanup, the telemetry     *)
(* unwrapping of processTelemetry and the dispatch loop of Start/Stop.     *)
(***************************************************************************)
EXTENDS Integers, Sequences, FiniteSets, TLC

(* ------------------------------------------------------------------ *)
(* Bounds of the model                                                 *)
(* ------------------------------------------------------------------ *)

\* Largest total-chunk count carried by a wire envelope.
MaxTotal == 3

\* Largest byte value of a fragment's content (bytes are 1..MaxByte).
MaxByte == 2

\* Largest number of fragment events the dispatch loop polls in one run.
MaxPolls == 3

\* Largest number of fragments the transport delivers in one run.
MaxDeliveries == 4

\* Largest number of processMessage calls made by the concurrent callers.
MaxCalls == 4

\* Largest number of processMessage calls when calls on one identity overlap.
MaxSameCalls == 3

\* Message identities seen on the topic.
IDs == {"a", "b"}

\* The goroutine that runs Start, and goroutines that call processMessage
\* directly. (The goroutine of main, which calls Initialize and Stop, has its
\* own program counter pcMain.)
Loop == "loop"
Workers == {"w1", "w2"}
Procs == {Loop} \cup Workers

(* ------------------------------------------------------------------ *)
(* Go values: byte slices, maps, int32                                 *)
(* ------------------------------------------------------------------ *)

\* A []byte is a nil slice or a non-nil slice with its bytes.
NilSlice == [nil |-> TRUE, b |-> <<>>]

Slice(s) == [nil |-> FALSE, b |-> s]

\* append with its operands exchanged: the new bytes end up in front.
GoAppend_Prepend(s, c) == IF Len(c.b) = 0 THEN s ELSE [nil |-> FALSE, b |-> c.b \o s.b]

\* append(s, c...): appending no element returns s itself (a nil s stays nil).
GoAppend(s, c) == IF Len(c.b) = 0 THEN s ELSE [nil |-> FALSE, b |-> s.b \o c.b]

\* m[k] on a Go map: the zero value when the key is missing.
MapGet(m, k, zero) == IF k \in DOMAIN m THEN m[k] ELSE zero

\* m[k] = v
MapPut(m, k, v) == [x \in (DOMAIN m) \cup {k} |-> IF x = k THEN v ELSE m[x]]

\* A cleanup that drops every key instead of one.
MapDelete_All(m, k) == [x \in {} |-> m[x]]

\* delete(m, k)
MapDelete(m, k) == [x \in (DOMAIN m) \ {k} |-> m[x]]

\* The empty map built by make(map[...]...).
EmptyMap == [x \in {} |-> 0]

\* c + 1 on an int32: the largest value wraps around to the smallest.
Int32Inc(c) == IF c = 2147483647 THEN (-2147483647) - 1 ELSE c + 1

(* ------------------------------------------------------------------ *)
(* Inputs                                                              *)
(* ------------------------------------------------------------------ *)

Bytes == 1..MaxByte

\* Contents of one fragment: absent (nil), present and empty, or one byte.
Contents == {NilSlice, Slice(<<>>)} \cup {Slice(<<x>>) : x \in Bytes}

\* The value of a kafka.Message: bytes that do not parse as the envelope of
\* the configured format, or an envelope with its four fields (the 0-based
\* current chunk number, the total, the identity and the content).
Garbage == [ok |-> FALSE]

Envelopes ==
  { [ok |-> TRUE, id |-> i, c |-> c, t |-> t, content |-> x] :
      i \in IDs, c \in 0..(MaxTotal - 1), t \in 1..MaxTotal, x \in Contents }

KafkaMessages == {Garbage} \cup Envelopes

NoMsg == [ok |-> FALSE, none |-> TRUE]

NoIpc == [chunk |-> 0, total |-> 0, id |-> "", content |-> NilSlice]

(* ------------------------------------------------------------------ *)
(* State                                                               *)
(* ------------------------------------------------------------------ *)

VARIABLES
  IPC,            \* KafkaClient.IPC
  IsTelemetry,    \* KafkaClient.IsTelemetry
  consumer,       \* KafkaClient.consumer: "nil", "invalid" (an interface value
                  \* that wraps a nil *kafka.Consumer), "open" or "closed"
  created,        \* createVariables and registerCounters have run
  msgBuffer,      \* KafkaClient.msgBuffer
  chunkTracker,   \* KafkaClient.chunkTracker
  mutex,          \* KafkaClient.mutex: the writer and the readers holding it
  stopping,       \* KafkaClient.stopping
  chunkProcessed, \* the counter onms_sink_processed_chunk_total
  msgProcessed,   \* the counter onms_sink_processed_messages_total
  initErr,        \* what the last call of Initialize returned
  pc,             \* where each goroutine of Procs stands
  pcMain,         \* where the goroutine calling Initialize and Stop stands
  msg,            \* processMessage's argument, per goroutine
  ipcmsg,         \* processMessage's local ipcmsg, per goroutine
  data,           \* processMessage's local data and return value, per goroutine
  tmsgs,          \* processTelemetry: the records of msgLog.Message still to do
  trace,          \* what the loop did for the event polled last
  lastEvent,      \* the kind of the event polled last
  polls,          \* events polled so far
  calls,          \* processMessage calls started by the workers so far
  sent,           \* per identity: the fragments the transport has delivered
  curKind,        \* per goroutine: how the transport delivered its fragment
  twin            \* a second client, in 'rpc' mode: its maps and its last result

vars == <<IPC, IsTelemetry, consumer, created, msgBuffer, chunkTracker, mutex,
          stopping, chunkProcessed, msgProcessed, initErr, pc, pcMain, msg,
          ipcmsg, data, tmsgs, trace,
          lastEvent, polls, calls, sent, curKind, twin>>

config == <<IPC, IsTelemetry>>
table == <<msgBuffer, chunkTracker>>
counters == <<chunkProcessed, msgProcessed>>
loopLocals == <<tmsgs, trace, lastEvent, polls>>
history == <<sent, curKind, twin>>

\* Nothing delivered yet for an identity: n is the total of its message,
\* pays the payloads of its chunks delivered so far, pos the chunk delivered
\* last, redelivered whether the transport has delivered a chunk again.
NoneSent == [n |-> 0, pays |-> <<>>, pos |-> 0, redelivered |-> FALSE]

\* The second client after createVariables.
NoTwin == [msgBuffer |-> EmptyMap, chunkTracker |-> EmptyMap, data |-> NilSlice]

NoLock == [writer |-> "none", readers |-> {}]

\* An identity has an entry when either map holds its key.
HasEntry(id) == id \in DOMAIN msgBuffer \/ id \in DOMAIN chunkTracker

\* Where a goroutine stands between processMessage's first lock and its return.
InCall == {"pm_lock", "pm_apply", "pm_unlock", "pm_rlock", "pm_read", "cl_lock",
           "cl_delete"}

(* ------------------------------------------------------------------ *)
(* getIpcMessage and processMessage                                    *)
(* ------------------------------------------------------------------ *)

\* An rpc decoding that keeps the 0-based chunk number of the wire.
RpcFragment_ZeroBased(m) ==
  [chunk |-> m.c, total |-> m.t, id |-> m.id, content |-> m.content]

\* The ipcMessage built from a parsed rpc.RpcMessageProto: CurrentChunkNumber
\* + 1, TotalChunks, RpcId, RpcContent.
RpcFragment(m) ==
  [chunk |-> Int32Inc(m.c), total |-> m.t, id |-> m.id, content |-> m.content]

\* The ipcMessage built from a parsed sink.SinkMessage: GetCurrentChunkNumber()
\* + 1, GetTotalChunks(), GetMessageId(), GetContent().
SinkFragment(m) ==
  [chunk |-> Int32Inc(m.c), total |-> m.t, id |-> m.id, content |-> m.content]

\* getIpcMessage on a client whose mode is ipc.
GetIpcMessageAs(ipc, m) == IF ipc = "rpc" THEN RpcFragment(m) ELSE SinkFragment(m)

\* The ipcMessage built from a parsed envelope, in the configured format.
GetIpcMessage(m) == GetIpcMessageAs(IPC, m)

\* How many times getIpcMessage increments chunkProcessed.
GetIpcMessageIncs(m) == IF IPC = "rpc" /\ m.ok THEN 1 ELSE 0

\* The path processMessage takes with a decoded fragment: the non-final path,
\* the single-chunk path (straight to bufferCleanup) or the final path.
FirstStep(f) ==
  IF f.chunk # f.total THEN "pm_lock"
  ELSE IF f.total = 1 THEN "cl_lock"
  ELSE "pm_rlock"

\* An acceptance test that lets a chunk equal to the watermark through.
Accepts_AtWatermark(tracker, f) == MapGet(tracker, f.id, 0) <= f.chunk

\* An acceptance test that compares with the total instead of the watermark.
Accepts_BelowTotal(tracker, f) == f.chunk < f.total

\* The acceptance test of a non-final fragment.
Accepts(tracker, f) == MapGet(tracker, f.id, 0) < f.chunk

\* An acceptance that raises the watermark to the total of the message.
ApplyNonFinal_TotalWatermark(buffer, tracker, f) ==
  IF Accepts(tracker, f)
    THEN <<MapPut(buffer, f.id, GoAppend(MapGet(buffer, f.id, NilSlice), f.content)),
           MapPut(tracker, f.id, f.total)>>
    ELSE <<buffer, tracker>>

\* The body of the non-final path on the two maps: accept the chunk (append
\* its content, raise the watermark) or ignore it.
ApplyNonFinal(buffer, tracker, f) ==
  IF Accepts(tracker, f)
    THEN <<MapPut(buffer, f.id, GoAppend(MapGet(buffer, f.id, NilSlice), f.content)),
           MapPut(tracker, f.id, f.chunk)>>
    ELSE <<buffer, tracker>>

\* processMessage up to its first lock: the counter (a nil counter panics when
\* Initialize has not registered it), the decoding and the choice between the
\* non-final path, the single-chunk path and the final path.
PM_Begin(p) ==
  /\ pc[p] = "pm_begin"
  /\ IF ~created
       THEN /\ pc' = [pc EXCEPT ![p] = "panic"]
            /\ UNCHANGED <<chunkProcessed, ipcmsg, data>>
       ELSE /\ chunkProcessed' = chunkProcessed + 1 + GetIpcMessageIncs(msg[p])
            /\ IF ~msg[p].ok
                 THEN /\ data' = [data EXCEPT ![p] = NilSlice]
                      /\ pc' = [pc EXCEPT ![p] = "pm_ret"]
                      /\ UNCHANGED ipcmsg
                 ELSE LET f == GetIpcMessage(msg[p]) IN
                        /\ ipcmsg' = [ipcmsg EXCEPT ![p] = f]
                        /\ pc' = [pc EXCEPT ![p] = FirstStep(f)]
                        /\ data' = [data EXCEPT ![p] =
                                      IF f.chunk = f.total /\ f.total = 1
                                        THEN f.content ELSE NilSlice]
  /\ UNCHANGED <<config, consumer, created, table, mutex, stopping, msgProcessed,
                 initErr, pcMain, msg, loopLocals, calls, history>>

\* cli.mutex.Lock() of the non-final path.
PM_Lock(p) ==
  /\ pc[p] = "pm_lock"
  /\ mutex = NoLock
  /\ mutex' = [mutex EXCEPT !.writer = p]
  /\ pc' = [pc EXCEPT ![p] = "pm_apply"]
  /\ UNCHANGED <<config, consumer, created, table, stopping, counters, initErr,
                 pcMain, msg, ipcmsg, data, loopLocals, calls, history>>

\* The body of the non-final path, under the lock.
PM_Apply(p) ==
  /\ pc[p] = "pm_apply"
  /\ LET r == ApplyNonFinal(msgBuffer, chunkTracker, ipcmsg[p]) IN
       /\ msgBuffer' = r[1]
       /\ chunkTracker' = r[2]
  /\ pc' = [pc EXCEPT ![p] = "pm_unlock"]
  /\ UNCHANGED <<config, consumer, created, mutex, stopping, counters, initErr,
                 pcMain, msg, ipcmsg, data, loopLocals, calls, history>>

\* cli.mutex.Unlock() and return nil.
PM_Unlock(p) ==
  /\ pc[p] = "pm_unlock"
  /\ mutex' = NoLock
  /\ data' = [data EXCEPT ![p] = NilSlice]
  /\ pc' = [pc EXCEPT ![p] = "pm_ret"]
  /\ UNCHANGED <<config, consumer, created, table, stopping, counters, initErr,
                 pcMain, msg, ipcmsg, loopLocals, calls, history>>

\* cli.mutex.RLock() of the final path.
PM_RLock(p) ==
  /\ pc[p] = "pm_rlock"
  /\ mutex.writer = "none"
  /\ mutex' = [mutex EXCEPT !.readers = @ \cup {p}]
  /\ pc' = [pc EXCEPT ![p] = "pm_read"]
  /\ UNCHANGED <<config, consumer, created, table, stopping, counters, initErr,
                 pcMain, msg, ipcmsg, data, loopLocals, calls, history>>

\* data = append(cli.msgBuffer[ipcmsg.id], ipcmsg.content...); RUnlock.
PM_Read(p) ==
  /\ pc[p] = "pm_read"
  /\ data' = [data EXCEPT ![p] =
                GoAppend(MapGet(msgBuffer, ipcmsg[p].id, NilSlice), ipcmsg[p].content)]
  /\ mutex' = [mutex EXCEPT !.readers = @ \ {p}]
  /\ pc' = [pc EXCEPT ![p] = "cl_lock"]
  /\ UNCHANGED <<config, consumer, created, table, stopping, counters, initErr,
                 pcMain, msg, ipcmsg, loopLocals, calls, history>>

\* bufferCleanup: cli.mutex.Lock().
CL_Lock(p) ==
  /\ pc[p] = "cl_lock"
  /\ mutex = NoLock
  /\ mutex' = [mutex EXCEPT !.writer = p]
  /\ pc' = [pc EXCEPT ![p] = "cl_delete"]
  /\ UNCHANGED <<config, consumer, created, table, stopping, counters, initErr,
                 pcMain, msg, ipcmsg, data, loopLocals, calls, history>>

\* bufferCleanup: both deletes, Unlock, and processMessage returns data.
CL_Delete(p) ==
  /\ pc[p] = "cl_delete"
  /\ msgBuffer' = MapDelete(msgBuffer, ipcmsg[p].id)
  /\ chunkTracker' = MapDelete(chunkTracker, ipcmsg[p].id)
  /\ mutex' = NoLock
  /\ pc' = [pc EXCEPT ![p] = "pm_ret"]
  /\ UNCHANGED <<config, consumer, created, stopping, counters, initErr,
                 pcMain, msg, ipcmsg, data, loopLocals, calls, history>>

processMessage(p) ==
  \/ PM_Begin(p)
  \/ PM_Lock(p)
  \/ PM_Apply(p)
  \/ PM_Unlock(p)
  \/ PM_RLock(p)
  \/ PM_Read(p)
  \/ CL_Lock(p)
  \/ CL_Delete(p)

(* ------------------------------------------------------------------ *)
(* The telemetry envelope (protobuf/telemetry, protobuf/netflow)       *)
(* ------------------------------------------------------------------ *)

\* proto.Unmarshal(data, msgLog): the schemas of the envelope and of the flow
\* are not modelled, so whether a payload parses is not a function of its
\* bytes here: the decoding fails, or gives one record per byte of the payload.
UnmarshalLog(d) ==
  {[ok |-> FALSE, message |-> <<>>],
   [ok |-> TRUE, message |-> [i \in 1..Len(d.b) |-> <<d.b[i]>>]]}

\* proto.Unmarshal(msg.Bytes, flow): the decoding fails, or gives the flow.
UnmarshalFlow(rec) == {[ok |-> FALSE, flow |-> 0], [ok |-> TRUE, flow |-> rec[1]]}

\* json.MarshalIndent(flow, "", "  "): the text of a flow, not its wire bytes.
MarshalIndent(flow) == Slice(<<100 + flow>>)

(* ------------------------------------------------------------------ *)
(* Start: the dispatch loop                                            *)
(* ------------------------------------------------------------------ *)

\* What the loop does for one event, as recorded in trace: a call of the
\* handler, the log line of a failed processTelemetry, the commit.
ActionCall(d) == [op |-> "action", arg |-> d]
TelemetryError == [op |-> "telemetry_error"]
CommitCall == [op |-> "commit"]

\* Start up to the loop: the nil check and cli.stopping = false.
Start ==
  /\ pc[Loop] = "start"
  /\ IF consumer = "nil"
       THEN /\ pc' = [pc EXCEPT ![Loop] = "fatal"]
            /\ UNCHANGED stopping
       ELSE /\ pc' = [pc EXCEPT ![Loop] = "check"]
            /\ stopping' = FALSE
  /\ UNCHANGED <<config, consumer, created, table, mutex, counters, initErr,
                 pcMain, msg, ipcmsg, data, loopLocals, calls, history>>

\* The top of the loop: if cli.stopping { return }. The locals of the
\* iteration before (e, data) are out of scope.
LoopCheck ==
  /\ pc[Loop] = "check"
  /\ pc' = [pc EXCEPT ![Loop] = IF stopping THEN "stopped" ELSE "poll"]
  /\ trace' = <<>>
  /\ lastEvent' = "none"
  /\ msg' = [msg EXCEPT ![Loop] = NoMsg]
  /\ ipcmsg' = [ipcmsg EXCEPT ![Loop] = NoIpc]
  /\ data' = [data EXCEPT ![Loop] = NilSlice]
  /\ curKind' = [curKind EXCEPT ![Loop] = "none"]
  /\ UNCHANGED <<config, consumer, created, table, mutex, stopping, counters,
                 initErr, pcMain, tmsgs, polls, calls, sent, twin>>

\* event := cli.consumer.Poll(500) and the type switch: a message goes to
\* processMessage; an error, a statistics event and a timeout are logged.
\* A method call on a nil *kafka.Consumer panics, and only a consumer that
\* Subscribe has subscribed (created follows it at once) gets messages.
Poll ==
  /\ pc[Loop] = "poll"
  /\ IF consumer = "invalid"
       THEN /\ pc' = [pc EXCEPT ![Loop] = "panic"]
            /\ UNCHANGED <<msg, polls, lastEvent>>
       ELSE \/ \E m \in KafkaMessages :
                 /\ created
                 /\ polls < MaxPolls
                 /\ polls' = polls + 1
                 /\ msg' = [msg EXCEPT ![Loop] = m]
                 /\ lastEvent' = "message"
                 /\ pc' = [pc EXCEPT ![Loop] = "pm_begin"]
            \/ \E e \in {"error", "stats", "timeout"} :
                 /\ lastEvent' = e
                 /\ pc' = [pc EXCEPT ![Loop] = "check"]
                 /\ UNCHANGED <<msg, polls>>
  /\ UNCHANGED <<config, consumer, created, table, mutex, stopping, counters,
                 initErr, pcMain, ipcmsg, data, tmsgs, trace, calls, history>>

\* A loop that commits only what completed a message.
DispatchTarget_SkipCommit(d) ==
  IF d.nil THEN "check" ELSE IF IsTelemetry THEN "tel_unmarshal" ELSE "action"

\* A loop that gives up when a fragment yields no payload.
DispatchTarget_StopOnNil(d) ==
  IF d.nil THEN "stopped" ELSE IF IsTelemetry THEN "tel_unmarshal" ELSE "action"

\* Where the loop goes with what processMessage returned.
DispatchTarget(d) ==
  IF d.nil THEN "commit" ELSE IF IsTelemetry THEN "tel_unmarshal" ELSE "action"

\* if data := cli.processMessage(e); data != nil { cli.msgProcessed.Inc() ...
Dispatch ==
  /\ pc[Loop] = "pm_ret"
  /\ msgProcessed' = IF data[Loop].nil THEN msgProcessed ELSE msgProcessed + 1
  /\ pc' = [pc EXCEPT ![Loop] = DispatchTarget(data[Loop])]
  /\ UNCHANGED <<config, consumer, created, table, mutex, stopping, chunkProcessed,
                 initErr, pcMain, msg, ipcmsg, data, loopLocals, calls, history>>

\* action(data) when telemetry mode is off.
HandlePayload ==
  /\ pc[Loop] = "action"
  /\ trace' = Append(trace, ActionCall(data[Loop]))
  /\ pc' = [pc EXCEPT ![Loop] = "commit"]
  /\ UNCHANGED <<config, consumer, created, table, mutex, stopping, counters,
                 initErr, pcMain, msg, ipcmsg, data, tmsgs, lastEvent, polls,
                 calls, history>>

\* processTelemetry: the decoding of the envelope.
TelUnmarshal ==
  /\ pc[Loop] = "tel_unmarshal"
  /\ \E log \in UnmarshalLog(data[Loop]) :
       IF log.ok
         THEN /\ tmsgs' = log.message
              /\ pc' = [pc EXCEPT ![Loop] = "tel_loop"]
              /\ UNCHANGED trace
         ELSE /\ tmsgs' = <<>>
              /\ trace' = Append(trace, TelemetryError)
              /\ pc' = [pc EXCEPT ![Loop] = "commit"]
  /\ UNCHANGED <<config, consumer, created, table, mutex, stopping, counters,
                 initErr, pcMain, msg, ipcmsg, data, lastEvent, polls, calls,
                 history>>

\* processTelemetry: one turn of the loop over msgLog.Message.
TelRecord ==
  /\ pc[Loop] = "tel_loop"
  /\ IF tmsgs = <<>>
       THEN /\ pc' = [pc EXCEPT ![Loop] = "commit"]
            /\ UNCHANGED <<tmsgs, trace>>
       ELSE \E r \in UnmarshalFlow(Head(tmsgs)) :
              IF r.ok
                THEN /\ trace' = Append(trace, ActionCall(MarshalIndent(r.flow)))
                     /\ tmsgs' = Tail(tmsgs)
                     /\ UNCHANGED pc
                ELSE /\ tmsgs' = <<>>
                     /\ pc' = [pc EXCEPT ![Loop] = "commit"]
                     /\ trace' = Append(trace, TelemetryError)
  /\ UNCHANGED <<config, consumer, created, table, mutex, stopping, counters,
                 initErr, pcMain, msg, ipcmsg, data, lastEvent, polls, calls, history>>

\* cli.consumer.CommitMessage(e); its error is logged.
Commit ==
  /\ pc[Loop] = "commit"
  /\ trace' = Append(trace, CommitCall)
  /\ pc' = [pc EXCEPT ![Loop] = "check"]
  /\ UNCHANGED <<config, consumer, created, table, mutex, stopping, counters,
                 initErr, pcMain, msg, ipcmsg, data, tmsgs, lastEvent, polls,
                 calls, history>>

(* ------------------------------------------------------------------ *)
(* Initialize and Stop                                                 *)
(* ------------------------------------------------------------------ *)

\* Initialize: the checks, kafka.NewConsumer and Subscribe (either may fail),
\* createVariables and registerCounters. cli.consumer is assigned what
\* NewConsumer returns before its error is looked at: a nil *kafka.Consumer
\* when it fails, which as a KafkaConsumer is not equal to nil.
Initialize ==
  /\ pcMain = "idle"
  /\ \/ /\ consumer # "nil"
        /\ initErr' = "already"
        /\ UNCHANGED <<IPC, consumer, created, table, mutex>>
     \/ /\ consumer = "nil"
        /\ IPC \notin {"", "sink", "rpc"}
        /\ initErr' = "invalid"
        /\ UNCHANGED <<IPC, consumer, created, table, mutex>>
     \/ /\ consumer = "nil"
        /\ IPC \in {"", "sink", "rpc"}
        /\ IPC' = IF IPC = "" THEN "sink" ELSE IPC
        /\ \/ /\ initErr' = "create"
              /\ consumer' = "invalid"
              /\ UNCHANGED <<created, table, mutex>>
           \/ /\ initErr' = "subscribe"
              /\ consumer' = "open"
              /\ UNCHANGED <<created, table, mutex>>
           \/ /\ initErr' = "nil"
              /\ consumer' = "open"
              /\ created' = TRUE
              /\ msgBuffer' = EmptyMap
              /\ chunkTracker' = EmptyMap
              /\ mutex' = NoLock
  /\ UNCHANGED <<IsTelemetry, stopping, counters, pc, pcMain, msg, ipcmsg, data,
                 loopLocals, calls, history>>

\* Stop: cli.stopping = true.
StopSet ==
  /\ pcMain = "idle"
  /\ stopping' = TRUE
  /\ pcMain' = "closing"
  /\ UNCHANGED <<config, consumer, created, table, mutex, counters, initErr, pc,
                 msg, ipcmsg, data, loopLocals, calls, history>>

\* Stop: cli.consumer.Close(), which panics on a nil consumer.
StopClose ==
  /\ pcMain = "closing"
  /\ IF consumer \in {"nil", "invalid"}
       THEN /\ pcMain' = "panic"
            /\ UNCHANGED consumer
       ELSE /\ pcMain' = "done"
            /\ consumer' = "closed"
  /\ UNCHANGED <<config, created, table, mutex, stopping, counters, initErr, pc,
                 msg, ipcmsg, data, loopLocals, calls, history>>

(* ------------------------------------------------------------------ *)
(* Specifications                                                      *)
(* ------------------------------------------------------------------ *)

\* The client as constructed by main: KafkaClient{} with its flags set.
Init ==
  /\ IPC \in {"", "sink", "rpc", "xml"}
  /\ IsTelemetry \in BOOLEAN
  /\ consumer = "nil"
  /\ created = FALSE
  /\ msgBuffer = EmptyMap
  /\ chunkTracker = EmptyMap
  /\ mutex = NoLock
  /\ stopping = FALSE
  /\ chunkProcessed = 0
  /\ msgProcessed = 0
  /\ initErr = "none"
  /\ pc = [p \in Procs |-> IF p = Loop THEN "start" ELSE "idle"]
  /\ pcMain = "idle"
  /\ msg = [p \in Procs |-> NoMsg]
  /\ ipcmsg = [p \in Procs |-> NoIpc]
  /\ data = [p \in Procs |-> NilSlice]
  /\ tmsgs = <<>>
  /\ trace = <<>>
  /\ lastEvent = "none"
  /\ polls = 0
  /\ calls = 0
  /\ sent = [i \in IDs |-> NoneSent]
  /\ curKind = [p \in Procs |-> "none"]
  /\ twin = NoTwin

Next ==
  \/ Initialize
  \/ Start
  \/ LoopCheck
  \/ Poll
  \/ processMessage(Loop)
  \/ Dispatch
  \/ HandlePayload
  \/ TelUnmarshal
  \/ TelRecord
  \/ Commit
  \/ StopSet
  \/ StopClose

Spec == Init /\ [][Next]_vars

\* The steps of the goroutine that runs Start.
LoopNext ==
  \/ Start
  \/ LoopCheck
  \/ Poll
  \/ processMessage(Loop)
  \/ Dispatch
  \/ HandlePayload
  \/ TelUnmarshal
  \/ TelRecord
  \/ Commit

\* The client with its goroutines scheduled: the goroutine of Start keeps
\* running (Poll returns within its timeout), and Stop, once it has set
\* stopping, goes on to Close.
SpecLive == Init /\ [][Next]_vars /\ WF_vars(LoopNext) /\ WF_vars(StopClose)

(* ------------------------------------------------------------------ *)
(* The transport: at-least-once, in order within a partition           *)
(* ------------------------------------------------------------------ *)

RECURSIVE Concat(_)
\* The concatenation of the bytes of a sequence of payloads.
Concat(ps) == IF ps = <<>> THEN <<>> ELSE Head(ps).b \o Concat(Tail(ps))

\* The fragments the transport can deliver next for identity id: chunk i of its
\* message, where i is at most one past the chunk delivered last (the consumer
\* reads on, or reads again from an earlier offset). A chunk delivered before
\* keeps its payload; a chunk delivered for the first time gets any payload,
\* and the first chunk fixes the total of the message.
Deliveries(id) ==
  LET s == sent[id] IN
    { [i |-> i, n |-> s.n, x |-> s.pays[i], kind |-> "redelivery"] :
        i \in 1..(IF s.pos < Len(s.pays) THEN s.pos + 1 ELSE s.pos) }
    \cup
    { [i |-> Len(s.pays) + 1, n |-> n, x |-> x, kind |-> "new"] :
        n \in { m \in 1..MaxTotal : s.pos = Len(s.pays) /\
                  IF s.n = 0 THEN TRUE ELSE m = s.n /\ Len(s.pays) < s.n },
        x \in Contents }

\* The history of identity id after delivery d.
Delivered(s, d) ==
  IF d.kind = "new"
    THEN [n |-> d.n, pays |-> Append(s.pays, d.x), pos |-> d.i,
          redelivered |-> s.redelivered]
    ELSE [s EXCEPT !.pos = d.i, !.redelivered = TRUE]

\* The wire envelope of delivery d.
Envelope(id, d) == [ok |-> TRUE, id |-> id, c |-> d.i - 1, t |-> d.n, content |-> d.x]

\* Poll when the topic carries one logical message per identity.
PollTransport ==
  /\ pc[Loop] = "poll"
  /\ polls < MaxDeliveries
  /\ polls' = polls + 1
  /\ \E id \in IDs : \E d \in Deliveries(id) :
       /\ msg' = [msg EXCEPT ![Loop] = Envelope(id, d)]
       /\ sent' = [sent EXCEPT ![id] = Delivered(@, d)]
       /\ curKind' = [curKind EXCEPT ![Loop] = d.kind]
  /\ lastEvent' = "message"
  /\ pc' = [pc EXCEPT ![Loop] = "pm_begin"]
  /\ UNCHANGED <<config, consumer, created, table, mutex, stopping, counters,
                 initErr, pcMain, ipcmsg, data, tmsgs, trace, calls, twin>>

\* A client after Initialize has succeeded, telemetry mode off.
InitReady ==
  /\ IPC \in {"sink", "rpc"}
  /\ IsTelemetry = FALSE
  /\ consumer = "open"
  /\ created = TRUE
  /\ msgBuffer = EmptyMap
  /\ chunkTracker = EmptyMap
  /\ mutex = NoLock
  /\ stopping = FALSE
  /\ chunkProcessed = 0
  /\ msgProcessed = 0
  /\ initErr = "nil"
  /\ pc = [p \in Procs |-> IF p = Loop THEN "start" ELSE "idle"]
  /\ pcMain = "idle"
  /\ msg = [p \in Procs |-> NoMsg]
  /\ ipcmsg = [p \in Procs |-> NoIpc]
  /\ data = [p \in Procs |-> NilSlice]
  /\ tmsgs = <<>>
  /\ trace = <<>>
  /\ lastEvent = "none"
  /\ polls = 0
  /\ calls = 0
  /\ sent = [i \in IDs |-> NoneSent]
  /\ curKind = [p \in Procs |-> "none"]
  /\ twin = NoTwin

NextTransport ==
  \/ Start
  \/ LoopCheck
  \/ PollTransport
  \/ processMessage(Loop)
  \/ Dispatch
  \/ HandlePayload
  \/ Commit

\* The dispatch loop fed by the transport.
SpecTransport == InitReady /\ [][NextTransport]_vars

(* ------------------------------------------------------------------ *)
(* Goroutines calling processMessage concurrently                      *)
(* ------------------------------------------------------------------ *)

\* A goroutine is between the start and the return of a processMessage call.
Calling(q) == pc[q] \in InCall \cup {"pm_begin", "pm_ret"}

\* A worker calls processMessage with the next chunk, in chunk order, of an
\* identity no other call is working on.
WorkerCall(w) ==
  /\ pc[w] = "idle"
  /\ calls < MaxCalls
  /\ calls' = calls + 1
  /\ \E id \in IDs :
       /\ \A q \in Procs \ {w} : Calling(q) => msg[q].id # id
       /\ \E d \in {e \in Deliveries(id) : e.kind = "new"} :
            /\ msg' = [msg EXCEPT ![w] = Envelope(id, d)]
            /\ sent' = [sent EXCEPT ![id] = Delivered(@, d)]
            /\ curKind' = [curKind EXCEPT ![w] = d.kind]
  /\ pc' = [pc EXCEPT ![w] = "pm_begin"]
  /\ UNCHANGED <<config, consumer, created, table, mutex, stopping, counters,
                 initErr, pcMain, ipcmsg, data, loopLocals, twin>>

\* The worker takes what processMessage returned; its locals go out of scope.
WorkerReturn(w) ==
  /\ pc[w] = "pm_ret"
  /\ pc' = [pc EXCEPT ![w] = "idle"]
  /\ msg' = [msg EXCEPT ![w] = NoMsg]
  /\ ipcmsg' = [ipcmsg EXCEPT ![w] = NoIpc]
  /\ data' = [data EXCEPT ![w] = NilSlice]
  /\ curKind' = [curKind EXCEPT ![w] = "none"]
  /\ UNCHANGED <<config, consumer, created, table, mutex, stopping, counters,
                 initErr, pcMain, loopLocals, calls, sent, twin>>

NextConc ==
  \E w \in Workers :
    \/ WorkerCall(w)
    \/ processMessage(w)
    \/ WorkerReturn(w)

\* processMessage called from several goroutines, each message in chunk order.
SpecConc == InitReady /\ [][NextConc]_vars

\* A worker calls processMessage with any fragment the transport can deliver,
\* a redelivered one included, whatever the other calls are working on.
WorkerCallAny(w) ==
  /\ pc[w] = "idle"
  /\ calls < MaxSameCalls
  /\ calls' = calls + 1
  /\ \E id \in IDs : \E d \in Deliveries(id) :
       /\ msg' = [msg EXCEPT ![w] = Envelope(id, d)]
       /\ sent' = [sent EXCEPT ![id] = Delivered(@, d)]
       /\ curKind' = [curKind EXCEPT ![w] = d.kind]
  /\ pc' = [pc EXCEPT ![w] = "pm_begin"]
  /\ UNCHANGED <<config, consumer, created, table, mutex, stopping, counters,
                 initErr, pcMain, ipcmsg, data, loopLocals, twin>>

NextSame ==
  \E w \in Workers :
    \/ WorkerCallAny(w)
    \/ processMessage(w)
    \/ WorkerReturn(w)

\* processMessage called from several goroutines, also on the same identity.
SpecSame == InitReady /\ [][NextSame]_vars

(* ------------------------------------------------------------------ *)
(* processMessage called sequentially on two clients, one per format   *)
(* ------------------------------------------------------------------ *)

\* One whole call of processMessage, with no other call in progress, on a
\* client whose mode is ipc: the maps after the call and the value returned.
ProcessMessageAs(ipc, buffer, tracker, m) ==
  IF ~m.ok THEN <<buffer, tracker, NilSlice>>
  ELSE LET f == GetIpcMessageAs(ipc, m) IN
    IF f.chunk # f.total
      THEN LET r == ApplyNonFinal(buffer, tracker, f) IN <<r[1], r[2], NilSlice>>
      ELSE <<MapDelete(buffer, f.id), MapDelete(tracker, f.id),
             IF f.total = 1 THEN f.content
             ELSE GoAppend(MapGet(buffer, f.id, NilSlice), f.content)>>

\* A caller hands the same logical fragment, in the envelope of its format,
\* to processMessage of the configured client and of the 'rpc' client.
FormatCall(w) ==
  /\ pc[w] = "idle"
  /\ calls < MaxCalls
  /\ calls' = calls + 1
  /\ \E m \in KafkaMessages :
       LET r == ProcessMessageAs(IPC, msgBuffer, chunkTracker, m)
           t == ProcessMessageAs("rpc", twin.msgBuffer, twin.chunkTracker, m)
       IN /\ msg' = [msg EXCEPT ![w] = m]
          /\ ipcmsg' = [ipcmsg EXCEPT ![w] = IF m.ok THEN GetIpcMessage(m) ELSE NoIpc]
          /\ chunkProcessed' = chunkProcessed + 1 + GetIpcMessageIncs(m)
          /\ msgBuffer' = r[1]
          /\ chunkTracker' = r[2]
          /\ data' = [data EXCEPT ![w] = r[3]]
          /\ twin' = [msgBuffer |-> t[1], chunkTracker |-> t[2], data |-> t[3]]
  /\ UNCHANGED <<config, consumer, created, mutex, stopping, msgProcessed, initErr,
                 pc, pcMain, loopLocals, sent, curKind>>

\* The configured client is in 'sink' mode.
InitFormat == InitReady /\ IPC = "sink"

NextFormat == FormatCall("w1")

SpecFormat == InitFormat /\ [][NextFormat]_vars

(* ------------------------------------------------------------------ *)
(* Properties                                                          *)
(* ------------------------------------------------------------------ *)

\* The fragment the loop's processMessage call works on, and its history.
LoopFragment == ipcmsg[Loop]
LoopSent == sent[ipcmsg[Loop].id]

\* processMessage has returned to the loop from a fragment that decoded.
LoopReturned == pc[Loop] = "pm_ret" /\ msg[Loop].ok

\* The calls of the handler recorded in a trace, in order.
Actions(t) == SelectSeq(t, LAMBDA e : e.op = "action")

\* C1 (ordered reassembly): when the chunks 1..n of a message with n >= 2 are
\* applied in increasing chunk order, none delivered twice, starting from no
\* entry, every non-final application returns nil, the application of chunk n
\* returns the concatenation of the payloads 1..n, and no entry is left.
C1_OrderedReassembly ==
  (LoopReturned /\ curKind[Loop] = "new" /\ ~LoopSent.redelivered /\ LoopSent.n >= 2)
    => IF LoopFragment.chunk < LoopSent.n
         THEN data[Loop] = NilSlice
         ELSE /\ data[Loop].b = Concat(LoopSent.pays)
              /\ LoopFragment.id \notin DOMAIN msgBuffer
              /\ LoopFragment.id \notin DOMAIN chunkTracker

\* A three-chunk message with three different payload positions was released.
C1_Witness ==
  /\ LoopReturned /\ curKind[Loop] = "new" /\ ~LoopSent.redelivered
  /\ LoopSent.n = 3 /\ LoopFragment.chunk = 3
  /\ data[Loop] = Slice(<<1, 2, 1>>)

\* C2 (exactly-once release): over the deliveries the transport can produce
\* for a message, only the first delivery of its final fragment returns a
\* payload, and that payload is the whole message.
C2_ExactlyOnceRelease ==
  LoopReturned =>
    IF curKind[Loop] = "new" /\ LoopFragment.chunk = LoopSent.n
      THEN data[Loop].b = Concat(LoopSent.pays)
      ELSE data[Loop].nil

\* C3 (idempotent chunk application): after a non-final fragment has been
\* applied, applying the same fragment again leaves both maps as they are.
C3_IdempotentChunk ==
  (LoopReturned /\ LoopFragment.chunk < LoopFragment.total)
    => ApplyNonFinal(msgBuffer, chunkTracker, LoopFragment) = <<msgBuffer, chunkTracker>>

\* A non-final fragment was accepted into an entry that already held bytes.
C3_Witness ==
  /\ LoopReturned /\ LoopFragment.chunk < LoopFragment.total
  /\ chunkTracker[LoopFragment.id] = LoopFragment.chunk
  /\ Len(msgBuffer[LoopFragment.id].b) = 2
  /\ Len(LoopFragment.content.b) = 1

\* A non-final fragment at or below the watermark of its identity.
Stale(f) == f.chunk # f.total /\ f.chunk <= MapGet(chunkTracker, f.id, 0)

\* C4 (stale rejection): no step of processMessage on a stale non-final
\* fragment changes either map, and the call returns nil.
C4_StaleRejection ==
  [][(pc[Loop] \in {"pm_lock", "pm_apply", "pm_unlock"} /\ Stale(LoopFragment))
       => /\ msgBuffer' = msgBuffer
          /\ chunkTracker' = chunkTracker
          /\ (pc'[Loop] = "pm_ret" => data'[Loop] = NilSlice)]_vars

\* A fragment strictly below the watermark has been processed: it was stale.
C4_Witness ==
  /\ LoopReturned /\ LoopFragment.chunk # LoopFragment.total
  /\ LoopFragment.id \in DOMAIN chunkTracker
  /\ LoopFragment.chunk >= 1
  /\ LoopFragment.chunk < chunkTracker[LoopFragment.id]
  /\ Len(LoopFragment.content.b) = 1

\* The entry of an identity: absent, or its buffer and its watermark.
Entry(buffer, tracker, id) ==
  <<id \in DOMAIN buffer, MapGet(buffer, id, NilSlice),
    id \in DOMAIN tracker, MapGet(tracker, id, 0)>>

\* C5 (independent concurrent messages): with the fragments of each message
\* applied in chunk order from concurrent goroutines, every non-final
\* application returns nil and the final one returns the concatenation of the
\* payloads of its own message; and a step changes the entry of an identity
\* only in a call on that identity, holding the lock.
C5_IndependentMessages ==
  /\ [](\A w \in Workers :
          (pc[w] = "pm_ret" /\ msg[w].ok)
            => IF ipcmsg[w].chunk < sent[ipcmsg[w].id].n
                 THEN data[w] = NilSlice
                 ELSE data[w].b = Concat(sent[ipcmsg[w].id].pays))
  /\ [][\A id \in IDs :
          Entry(msgBuffer', chunkTracker', id) # Entry(msgBuffer, chunkTracker, id)
            => \E p \in Procs : /\ pc[p] \in {"pm_apply", "cl_delete"}
                                /\ ipcmsg[p].id = id
                                /\ mutex.writer = p]_vars

\* One worker completes a two-chunk message while the other is inside a call
\* on the other identity, whose entry holds a byte.
C5_Witness ==
  \E w \in Workers : \E v \in Workers \ {w} :
    /\ pc[w] = "pm_ret" /\ msg[w].ok
    /\ ipcmsg[w].total = 2 /\ ipcmsg[w].chunk = 2
    /\ data[w] = Slice(<<1, 2>>)
    /\ pc[v] \in InCall
    /\ ipcmsg[v].id # ipcmsg[w].id
    /\ ipcmsg[v].id \in DOMAIN msgBuffer
    /\ Len(msgBuffer[ipcmsg[v].id].b) = 1

\* C6 (single-fragment fast path): a fragment with chunkIndex = totalChunks = 1
\* is returned as its own payload, and no step of its processing changes
\* either map.
C6_FastPathFrame ==
  [][(pc[Loop] \in {"cl_lock", "cl_delete"} /\ LoopFragment.chunk = 1
        /\ LoopFragment.total = 1)
       => /\ msgBuffer' = msgBuffer
          /\ chunkTracker' = chunkTracker
          /\ (pc'[Loop] = "pm_ret" => data'[Loop] = LoopFragment.content)]_vars

\* The loop has finished the work for a fragment event.
LoopDone == pc[Loop] = "check" /\ lastEvent = "message"

\* The fragment processed completed a message: it decoded and was the final one.
Completed == msg[Loop].ok /\ LoopFragment.chunk = LoopFragment.total

\* C7 (empty payload is a valid completion): when a final fragment completes a
\* message of zero length and telemetry mode is off, the handler is invoked
\* once, with the empty payload.
C7_EmptyCompletion ==
  (LoopDone /\ Completed /\ Len(data[Loop].b) = 0 /\ ~IsTelemetry)
    => /\ Len(Actions(trace)) = 1
       /\ Actions(trace)[1].arg.b = <<>>

\* C8 (telemetry unwrap is all-or-nothing): when processTelemetry returns an
\* error for a payload, the handler was not invoked for that payload.
C8_TelemetryAllOrNothing ==
  (\E i \in 1..Len(trace) : trace[i] = TelemetryError) => Actions(trace) = <<>>

\* The handler calls a well-formed envelope gives: one per record, in order.
RecordCalls(d) == [i \in 1..Len(d.b) |-> ActionCall(MarshalIndent(d.b[i]))]

\* C9 (handler invocation count and order): for a fragment that completes a
\* message the handler is invoked once with the payload when telemetry mode
\* is off, and once per record in envelope order when it is on and the
\* envelope is well-formed; for any other fragment it is not invoked.
C9_HandlerInvocations ==
  LoopDone =>
    IF ~Completed THEN Actions(trace) = <<>>
    ELSE IF ~IsTelemetry
      THEN /\ Len(Actions(trace)) = 1
           /\ Actions(trace)[1].arg.b = data[Loop].b
    ELSE (\A i \in 1..Len(trace) : trace[i] # TelemetryError)
           => Actions(trace) = RecordCalls(data[Loop])

\* C10 (commit after every fragment): when the loop is back at its top after
\* a fragment event, the commit is the last thing it did and it did it once;
\* while it still works on the fragment it has not committed.
C10_CommitAfterEveryFragment ==
  LET commits == SelectSeq(trace, LAMBDA e : e = CommitCall) IN
    /\ LoopDone => /\ Len(commits) = 1
                   /\ trace[Len(trace)] = CommitCall
    /\ (lastEvent = "message" /\ pc[Loop] # "check") => commits = <<>>

\* The loop committed after a handler call followed by a failed unwrapping.
C10_Witness ==
  /\ LoopDone
  /\ Len(trace) = 3
  /\ trace[1].op = "action"
  /\ trace[2] = TelemetryError
  /\ trace[3] = CommitCall

\* The loop has taken a step of its own.
LoopStepped == pc'[Loop] # pc[Loop]

\* C11 (errors never stop the loop): a fragment that fails to decode returns
\* nil and goes on to the commit with both maps unchanged; a payload that fails
\* to unwrap goes on to the commit; after the commit, whatever it returned, and
\* after a transport error event, with both maps unchanged, the loop is back at
\* its top, from where it polls again unless stopping is set; and the loop
\* becomes stopped only at its top with stopping set.
C11_ErrorsContained ==
  [][/\ (pc[Loop] = "pm_begin" /\ created /\ ~msg[Loop].ok)
          => (LoopStepped => /\ pc'[Loop] = "pm_ret" /\ data'[Loop] = NilSlice
                             /\ table' = table)
     /\ (pc[Loop] = "pm_ret" /\ ~msg[Loop].ok)
          => (LoopStepped => pc'[Loop] = "commit" /\ table' = table)
     /\ (trace' # trace /\ trace' # <<>> /\ trace'[Len(trace')] = TelemetryError)
          => pc'[Loop] = "commit"
     /\ (pc[Loop] = "commit" /\ LoopStepped) => pc'[Loop] = "check"
     /\ (pc[Loop] = "poll" /\ lastEvent' = "error")
          => pc'[Loop] = "check" /\ table' = table
     /\ (pc[Loop] = "check" /\ LoopStepped /\ ~stopping) => pc'[Loop] = "poll"
     /\ (pc'[Loop] = "stopped" /\ LoopStepped) => pc[Loop] = "check" /\ stopping
    ]_vars

\* The loop is back at its top, not stopping, after a fragment that failed to
\* decode and was committed, with the entry of an earlier fragment in place.
C11_Witness ==
  /\ LoopDone /\ msg[Loop] = Garbage /\ ~stopping
  /\ trace = <<CommitCall>>
  /\ \E id \in IDs : id \in DOMAIN msgBuffer /\ Len(msgBuffer[id].b) = 1

\* C12 (Stop is effective): once Stop has been called on an initialized
\* client, at whatever point of Start (unless Start has ended the process for
\* want of a consumer), the loop eventually is stopped; and a stopped loop
\* takes no further step, so it polls no more.
C12_StopEffective ==
  /\ (initErr = "nil" /\ pcMain = "closing" /\ pc[Loop] # "fatal")
       ~> (pc[Loop] = "stopped")
  /\ [][pc[Loop] = "stopped" => pc'[Loop] = "stopped"]_vars

\* Where the goroutine of Start stands while the loop is running.
Running ==
  {"check", "poll", "pm_begin", "pm_ret", "action", "tel_unmarshal", "tel_loop",
   "commit"} \cup InCall

\* C13 (startup validation): a call of Initialize with a mode other than
\* 'sink', 'rpc' or empty, or on a client that has a consumer, returns an
\* error and leaves the consumer and the maps as they were; an empty mode
\* becomes 'sink'; the loop is running only if Initialize has succeeded, and
\* never with a mode other than 'sink' or 'rpc'.
C13_StartupValidation ==
  /\ [][(initErr' # initErr \/ IPC' # IPC \/ consumer' \notin {consumer, "closed"})
          => /\ (consumer # "nil" \/ IPC \notin {"", "sink", "rpc"})
                  => /\ initErr' \in {"already", "invalid"}
                     /\ UNCHANGED <<IPC, consumer, created, table>>
             /\ (consumer = "nil" /\ IPC = "") => IPC' = "sink"]_vars
  /\ [](pc[Loop] \in Running => created /\ IPC \in {"sink", "rpc"})

\* C14 (format normalization): a logical fragment (identity, 0-based chunk c,
\* total t, content) decodes to {id, chunk = c + 1, total = t, content} from
\* the sink envelope and from the rpc envelope alike, and after any sequence
\* of fragments the 'sink' client and the 'rpc' client have returned the same
\* value and hold the same maps.
C14_FormatNormalization ==
  /\ msg["w1"].ok
       => /\ SinkFragment(msg["w1"]) = RpcFragment(msg["w1"])
          /\ ipcmsg["w1"] = [chunk |-> msg["w1"].c + 1, total |-> msg["w1"].t,
                             id |-> msg["w1"].id, content |-> msg["w1"].content]
  /\ twin.data = data["w1"]
  /\ twin.msgBuffer = msgBuffer
  /\ twin.chunkTracker = chunkTracker

\* Both clients have released the same two-chunk payload while holding the
\* entry of the other identity.
C14_Witness ==
  /\ IPC = "sink" /\ calls = 3
  /\ ipcmsg["w1"].chunk = 2 /\ ipcmsg["w1"].total = 2
  /\ data["w1"] = Slice(<<2, 1>>) /\ twin.data = Slice(<<2, 1>>)
  /\ DOMAIN twin.msgBuffer = IDs \ {ipcmsg["w1"].id}

\* A call on a final fragment of a message of several chunks has read the
\* buffer and has not yet deleted the entry.
ReadNotDeleted(w) == pc[w] \in {"cl_lock", "cl_delete"} /\ ipcmsg[w].total > 1

\* C15 (atomic completion): while a call on a final fragment stands between
\* its read of the buffer and its delete of the entry, no other call on the
\* same identity accepts a chunk, reads the buffer or deletes the entry; two
\* calls on the same final fragment never both hold the whole payload; and
\* the delete removes no byte that the call does not return.
C15_AtomicCompletion ==
  /\ [][\A w \in Workers : \A v \in Workers \ {w} :
          (ReadNotDeleted(w) /\ ipcmsg[v].id = ipcmsg[w].id /\ pc'[v] # pc[v])
            => pc[v] \notin {"pm_apply", "pm_read", "cl_delete"}]_vars
  /\ [](\A w \in Workers : \A v \in Workers \ {w} :
          ~(/\ pc[w] \in {"cl_lock", "cl_delete", "pm_ret"}
            /\ pc[v] \in {"cl_lock", "cl_delete", "pm_ret"}
            /\ ipcmsg[w] = ipcmsg[v] /\ ipcmsg[w].total > 1
            /\ ipcmsg[w].chunk = ipcmsg[w].total
            /\ ~data[w].nil /\ data[w] = data[v]
            /\ data[w].b = Concat(sent[ipcmsg[w].id].pays)))
  /\ [](\A w \in Workers :
          (pc[w] = "cl_delete" /\ ipcmsg[w].total > 1)
            => GoAppend(MapGet(msgBuffer, ipcmsg[w].id, NilSlice), ipcmsg[w].content).b
                 = data[w].b)

\* An identity has an entry after the step.
HasEntryNext(id) == id \in DOMAIN msgBuffer' \/ id \in DOMAIN chunkTracker'

\* The final fragment of the message of an identity has been delivered and
\* the loop has finished the work for it: the message has completed.
HasCompleted(id) ==
  /\ sent[id].n >= 1 /\ Len(sent[id].pays) = sent[id].n
  /\ (pc[Loop] \in InCall \cup {"pm_begin"} => msg[Loop].id # id)

\* C16 (entry lifecycle): an entry appears only when a non-final fragment of
\* its identity is accepted, disappears only in the cleanup of a final
\* fragment of its identity, and an identity whose message has completed has
\* no entry whenever no call on it is in progress, redeliveries included.
C16_EntryLifecycle ==
  /\ [][\A id \in IDs :
          /\ (~HasEntry(id) /\ HasEntryNext(id))
               => /\ pc[Loop] = "pm_apply" /\ LoopFragment.id = id
                  /\ LoopFragment.chunk # LoopFragment.total
                  /\ Accepts(chunkTracker, LoopFragment)
          /\ (HasEntry(id) /\ ~HasEntryNext(id))
               => /\ pc[Loop] = "cl_delete" /\ LoopFragment.id = id
                  /\ LoopFragment.chunk = LoopFragment.total]_vars
  /\ [](\A id \in IDs : HasCompleted(id) => ~HasEntry(id))

\* The watermark and the accumulated bytes of an identity (0 and none when it
\* has no entry).
Watermark(tracker, id) == MapGet(tracker, id, 0)
Buffered(buffer, id) == MapGet(buffer, id, NilSlice).b

\* C17 (watermark policy under reordering): a non-final fragment is accepted
\* exactly when its chunkIndex is above the watermark, whatever chunks are
\* missing below it; an accepted fragment makes its chunkIndex the watermark
\* and appends its payload to the buffer; a fragment at or below the watermark
\* is discarded, the call returning nil; the watermark of an entry never
\* decreases while the entry exists; and the final fragment returns the
\* buffer, i.e. the accepted payloads in acceptance order, plus its own.
C17_WatermarkPolicy ==
  [][/\ (pc[Loop] = "pm_apply" /\ LoopStepped)
          => LET f == LoopFragment IN
               IF Watermark(chunkTracker, f.id) < f.chunk
                 THEN /\ Watermark(chunkTracker', f.id) = f.chunk
                      /\ Buffered(msgBuffer', f.id)
                           = Buffered(msgBuffer, f.id) \o f.content.b
                 ELSE table' = table /\ data'[Loop] = NilSlice
     /\ \A id \in IDs :
          /\ (id \in DOMAIN chunkTracker /\ id \in DOMAIN chunkTracker')
               => chunkTracker'[id] >= chunkTracker[id]
          /\ (HasEntryNext(id) /\ Entry(msgBuffer', chunkTracker', id)
                                   # Entry(msgBuffer, chunkTracker, id))
               => pc[Loop] = "pm_apply" /\ LoopFragment.id = id
     /\ (pc[Loop] = "pm_read" /\ LoopStepped)
          => data'[Loop].b = Buffered(msgBuffer, LoopFragment.id)
                               \o LoopFragment.content.b
    ]_vars

\* Chunk 2 of 3 was accepted first; chunk 1 of 3, arriving second, has been
\* discarded: the watermark is 2 and the buffer holds the byte of chunk 2 only.
C17_Witness ==
  /\ pc[Loop] = "pm_ret" /\ polls = 2
  /\ LoopFragment.chunk = 1 /\ LoopFragment.total = 3
  /\ LoopFragment.content = Slice(<<2>>)
  /\ data[Loop] = NilSlice
  /\ Watermark(chunkTracker, LoopFragment.id) = 2
  /\ Buffered(msgBuffer, LoopFragment.id) = <<1>>

\* C18 (fragment well-formedness): every fragment that is on the accept path
\* or on the completion path of processMessage has 1 <= chunkIndex <=
\* totalChunks.
C18_WellFormedFragments ==
  \A p \in Procs :
    pc[p] \in InCall => /\ 1 <= ipcmsg[p].chunk
                        /\ ipcmsg[p].chunk <= ipcmsg[p].total

\* C19 (no transport use after close): the loop calls neither Poll nor
\* CommitMessage on a consumer that Stop has closed; no fragment is then
\* polled after Close, so no handler is invoked for one.
C19_NoUseAfterClose ==
  [][(pc[Loop] \in {"poll", "commit"} /\ LoopStepped) => consumer # "closed"]_vars

\* C20 (counter accuracy): in either mode chunkProcessed is the number of
\* fragment events that processMessage has been entered for, each counted
\* once, and msgProcessed goes up by one exactly when processMessage has
\* returned a payload to the loop.
C20_CounterAccuracy ==
  /\ [](chunkProcessed = IF pc[Loop] = "pm_begin" THEN polls - 1 ELSE polls)
  /\ [][/\ chunkProcessed' # chunkProcessed
             => pc[Loop] = "pm_begin" /\ chunkProcessed' = chunkProcessed + 1
        /\ msgProcessed' =
             IF pc[Loop] = "pm_ret" /\ LoopStepped /\ ~data[Loop].nil
               THEN msgProcessed + 1 ELSE msgProcessed]_vars

====
